---- MODULE Spec2Model ----
(***************************************************************************)
(* Batch OCR scheduler of raisegrade-resources.                            *)
(*                                                                         *)
(*   high_accuracy_ocr_pipeline.py.py  ("pipeline"): mkdir, ocrmypdf,      *)
(*       text extraction, docx export, spell check, per PDF, in a          *)
(*       ThreadPoolExecutor of WORKERS threads; main merges the futures.   *)
(*   ocr.py ("ocr"): mkdir, ocrmypdf, pdftotext, same scheduler.           *)
(*                                                                         *)
(* File names are sequences of one-character strings, paths are sequences  *)
(* of names (pathlib parts) relative to the input / output root.           *)
(***************************************************************************)
EXTENDS Integers, Sequences, FiniteSets, TLC

(* ---------------------------------------------------------------- bounds *)
MaxDocs    == 2     \* documents discovered under the input root
MaxWorkers == 2     \* values tried for the WORKERS setting
MaxRuns    == 2     \* how many times the batch is run over the same tree

(* --------------------------------------------------------------- strings *)
\* Code points of the characters that occur in the modelled names.
Ord(c) ==
  CASE c = " " -> 32  [] c = "-" -> 45  [] c = "/" -> 47  [] c = "2" -> 50
    [] c = "H" -> 72  [] c = "e_acute" -> 233
    [] c = "." -> 46  [] c = "_" -> 95  [] c = "a" -> 97  [] c = "b" -> 98
    [] c = "c" -> 99  [] c = "d" -> 100 [] c = "e" -> 101 [] c = "f" -> 102
    [] c = "h" -> 104 [] c = "i" -> 105 [] c = "l" -> 108 [] c = "o" -> 111
    [] c = "p" -> 112 [] c = "r" -> 114 [] c = "s" -> 115 [] c = "t" -> 116
    [] c = "u" -> 117 [] c = "x" -> 120 [] c = "y" -> 121

RECURSIVE StrLess(_, _)
\* Python str.__lt__ : lexicographic on code points, a proper prefix is smaller.
StrLess(s, t) ==
  IF t = <<>> THEN FALSE
  ELSE IF s = <<>> THEN TRUE
  ELSE IF Head(s) # Head(t) THEN Ord(Head(s)) < Ord(Head(t))
  ELSE StrLess(Tail(s), Tail(t))

RECURSIVE PathLess(_, _)
\* pathlib.PurePath.__lt__ : compares the tuples of parts.
PathLess(p, q) ==
  IF q = <<>> THEN FALSE
  ELSE IF p = <<>> THEN TRUE
  ELSE IF Head(p) # Head(q) THEN StrLess(Head(p), Head(q))
  ELSE PathLess(Tail(p), Tail(q))

\* Index of the last "." of a name, 0 when there is none (str.rfind + 1).
RFindDot(name) ==
  LET I == {i \in 1..Len(name) : name[i] = "."}
  IN  IF I = {} THEN 0 ELSE CHOOSE i \in I : \A j \in I : j <= i

\* pathlib.PurePath.stem : the name without its last suffix; a leading dot
\* or a trailing dot is not a suffix separator.
Stem(name) ==
  LET i == RFindDot(name)
  IN  IF 1 < i /\ i < Len(name) THEN SubSeq(name, 1, i - 1) ELSE name

Name(p)   == p[Len(p)]
Parent(p) == SubSeq(p, 1, Len(p) - 1)

PdfExt == <<".", "p", "d", "f">>

\* rglob("*.pdf") : the name ends in ".pdf".
MatchesPdf(name) ==
  Len(name) >= Len(PdfExt)
  /\ SubSeq(name, Len(name) - Len(PdfExt) + 1, Len(name)) = PdfExt

(* ------------------------------------------------------------- artifacts *)
Kinds == {"searchable", "txt", "docx", "issues"}

ArtifactSuffix(k) ==
  CASE k = "searchable" ->
         <<"_","s","e","a","r","c","h","a","b","l","e",".","p","d","f">>
    [] k = "txt"    -> <<".","t","x","t">>
    [] k = "docx"   -> <<".","d","o","c","x">>
    [] k = "issues" -> <<"_","i","s","s","u","e","s",".","t","x","t">>

\* target_dir = out_base / rel.parent, as parts below the output root.
TargetDir(p) == Parent(p)

\* target_dir / (pdf_path.stem + suffix)
ArtifactPath(p, k) == TargetDir(p) \o << Stem(Name(p)) \o ArtifactSuffix(k) >>

(* ------------------------------------------------------------ input tree *)
\* Files that may lie under the input root (paths relative to the root).
FilePool ==
  { << <<"a",".","p","d","f">> >>,
    << <<"a","_","i","s","s","u","e","s",".","p","d","f">> >>,
    << <<"x">>, <<"a",".","p","d","f">> >>,
    << <<"a",".","t","x","t">> >> }

Scripts == {"pipeline", "ocr"}

RECURSIVE SortPathsDescending(_)
\* Mutant: sorted(..., reverse=True).
SortPathsDescending(S) ==
  IF S = {} THEN <<>>
  ELSE LET m == CHOOSE p \in S : \A q \in S \ {p} : PathLess(q, p)
       IN  <<m>> \o SortPathsDescending(S \ {m})

RECURSIVE SortPaths(_)
\* sorted(...) of a set of Path objects.
SortPaths(S) ==
  IF S = {} THEN <<>>
  ELSE LET m == CHOOSE p \in S : \A q \in S \ {p} : PathLess(p, q)
       IN  <<m>> \o SortPaths(S \ {m})

\* sorted([p for p in root.rglob("*.pdf") if p.is_file()])
find_pdfs(files) == SortPaths({p \in files : MatchesPdf(Name(p))})

(* ----------------------------------------------------------------- state *)
VARIABLES
  script,     \* which of the two batch scripts runs
  WORKERS,    \* the configured pool size
  tree,       \* files under the input root
  run,        \* number of the current run of main()
  mainpc,     \* position of the main thread
  pdfs,       \* the discovered list
  queue,      \* work queue of the executor: submitted, not yet started
  pc,         \* pc[d]: position of the call process_pdf_file(pdfs[d])
  owner,      \* owner[d]: pool thread that is running the call, 0 if none is
  started,    \* started[d]: how many times the call was started in this run
  ret,        \* ret[d]: outcome of the future: none, True, False, raised
  results,    \* results[d]: what each stage of the call did
  wrote,      \* <<d, kind>>: the call for d wrote that artifact in this run
  merged,     \* merged[d]: how many times main consumed the future
  successes,  \* counter of main
  fails,      \* counter of main
  dirs,       \* directories below the output root
  disk,       \* artifact path -> content, Absent when there is no file
  log,        \* printed lines, as <<tag, d>>
  inputExists,\* INPUT_DIR exists
  installed,  \* the commands shutil.which finds on PATH
  mk,         \* mk[w]: the target_dir.mkdir call of pool thread w, step by step
  prev,     \* what the first of two runs left behind
  lint,     \* the text, dictionary and report of one simple_spellcheck call
  batch     \* the sequential loop of batch_extract.py

\* The environment of a run and the state of the parts of the scripts that
\* the scheduler actions leave alone.
aux == << inputExists, installed, mk, prev, lint, batch >>

vars == << script, WORKERS, tree, run, mainpc, pdfs, queue, pc, owner,
           started, ret, results, wrote, merged, successes, fails, dirs,
           disk, log, aux >>

Tools == {"ocrmypdf", "pdftotext", "tesseract"}

\* The state of the scheduler before main() has discovered anything.
Unscheduled ==
  /\ pdfs = <<>>
  /\ queue = <<>>
  /\ pc = <<>>
  /\ owner = <<>>
  /\ started = <<>>
  /\ ret = <<>>
  /\ results = <<>>
  /\ wrote = {}
  /\ merged = <<>>
  /\ successes = 0
  /\ fails = 0
  /\ dirs = {}
  /\ log = {}

Absent == [by |-> <<>>, kind |-> "none", complete |-> FALSE]

\* batch_extract.py is not running.
NoBatch == [at |-> "off", i |-> 0, attempted |-> {}, log |-> {}]

\* No spell check is looked at on its own.
NoLint ==
  [text |-> <<>>, custom_words |-> {}, candidates |-> 0, report |-> <<>>,
   at |-> "off"]

\* Nothing remembered of an earlier run.
NoPrev ==
  [pdfs |-> <<>>, results |-> <<>>, present |-> {}, successes |-> 0,
   fails |-> 0]

Docs == 1..Len(pdfs)

NoResults ==
  [mkdir |-> "none", norm |-> "none", extract |-> "none",
   export |-> "none", lint |-> "none"]

\* Every artifact path some file of the pool can map to.
AllPaths == {ArtifactPath(p, k) : p \in FilePool, k \in Kinds}

\* The directories target_dir.mkdir(parents=True) creates.
Ancestors(dir) == {SubSeq(dir, 1, i) : i \in 0..Len(dir)}

Running(d) == pc[d] \notin {"queued", "returned"}

Idle(w) == \A d \in Docs : owner[d] # w

\* The content a stage of the call for document d leaves at a path.
Content(d, k, whole) == [by |-> pdfs[d], kind |-> k, complete |-> whole]

Init ==
  /\ script \in Scripts
  /\ WORKERS \in 1..MaxWorkers
  /\ tree \in {t \in SUBSET FilePool : Len(find_pdfs(t)) <= MaxDocs}
  /\ run = 1
  /\ mainpc = "main"
  /\ Unscheduled
  /\ disk = [p \in AllPaths |-> Absent]
  /\ inputExists = TRUE
  /\ installed = Tools
  /\ mk = <<>>
  /\ prev = NoPrev
  /\ lint = NoLint
  /\ batch = NoBatch

(* ----------------------------------------------------------- main thread *)
\* Mutant: the "if not pdfs: ... return" is missing.
AfterDiscoveryNoReturn(n) == "collect"

\* if not pdfs: print("No PDFs found under", root); return
AfterDiscovery(n) == IF n = 0 THEN "returned" ELSE "collect"

\* Mutant: the counters are not set back when main() starts.
CounterCarriedOver(old) == old

\* successes = fails = 0
CounterAtStart(old) == 0

\* main() up to the submission loop: out_base.mkdir, discovery, then either
\* "No PDFs found" and return, or one future submitted per discovered PDF.
MainStartup ==
  LET found == find_pdfs(tree)
      n     == Len(found)
  IN  /\ pdfs' = found
      /\ dirs' = dirs \cup {<<>>}
      /\ successes' = CounterAtStart(successes)
      /\ fails' = CounterAtStart(fails)
      /\ pc' = [d \in 1..n |-> "queued"]
      /\ owner' = [d \in 1..n |-> 0]
      /\ started' = [d \in 1..n |-> 0]
      /\ ret' = [d \in 1..n |-> "none"]
      /\ results' = [d \in 1..n |-> NoResults]
      /\ merged' = [d \in 1..n |-> 0]
      /\ wrote' = {}
      /\ mainpc' = AfterDiscovery(n)
      /\ IF AfterDiscovery(n) = "returned"
           THEN /\ log' = {<<"No PDFs found", 0>>}
                /\ queue' = <<>>
           ELSE /\ log' = {<<"Found", n>>}
                /\ queue' = [i \in 1..n |-> i]

\* The first run of the batch.
Discover ==
  /\ mainpc = "main"
  /\ MainStartup
  /\ UNCHANGED << aux, script, WORKERS, tree, run, disk >>

\* check_tools(): the commands each script looks up with shutil.which.
RequiredTools ==
  IF script = "pipeline" THEN {"ocrmypdf", "pdftotext", "tesseract"}
  ELSE {"ocrmypdf", "pdftotext"}

\* Whether main() looks at the input folder before it scans it: ocr.py does
\* (if not root.exists(): sys.exit(1)), the pipeline script does not.
ChecksInput == script = "ocr"

\* The head of main(): the checks that end the process with sys.exit(1).
Startup ==
  /\ mainpc = "start"
  /\ mainpc' = IF (ChecksInput /\ ~inputExists)
                  \/ ~(RequiredTools \subseteq installed)
               THEN "exit1" ELSE "main"
  /\ UNCHANGED << aux, script, WORKERS, tree, run, pdfs, queue, pc, owner,
                  started, ret, results, wrote, merged, successes, fails,
                  dirs, disk, log >>

(* ---------------------------------------------------------- worker pool *)
\* Mutant: the executor spawns a thread beyond max_workers.
PoolThreadsUnbounded == 1..(WORKERS + 1)

\* ThreadPoolExecutor(max_workers=WORKERS): the threads of the pool.
PoolThreads == 1..WORKERS

\* Mutant: the started work item stays in the queue.
DequeueKeep(q) == q

\* A pool thread takes a work item off the queue: the item leaves the queue.
Dequeue(q) == Tail(q)

\* The thread of a call: it is free again as soon as the call has returned.
Release(d, at) == [owner EXCEPT ![d] = IF at = "returned" THEN 0 ELSE @]

\* A pool thread that has nothing to run takes the oldest submitted call.
Start(w) ==
  /\ mainpc = "collect"
  /\ w \in PoolThreads
  /\ Idle(w)
  /\ queue # <<>>
  /\ LET d == Head(queue)
     IN  /\ pc' = [pc EXCEPT ![d] = "mkdir"]
         /\ owner' = [owner EXCEPT ![d] = w]
         /\ started' = [started EXCEPT ![d] = @ + 1]
  /\ queue' = Dequeue(queue)
  /\ UNCHANGED << aux, script, WORKERS, tree, run, mainpc, pdfs, ret, results,
                  wrote, merged, successes, fails, dirs, disk, log >>

\* The work queue after a call raised: the executor keeps the other items.
QueueAfterRaise(q) == q

\* rel = ...relative_to(root); target_dir.mkdir(parents=True, exist_ok=True);
\* print("[START]").  An OSError leaves the call through the future.
Mkdir(d, ok) ==
  /\ pc[d] = "mkdir"
  /\ IF ok
       THEN /\ dirs' = dirs \cup Ancestors(TargetDir(pdfs[d]))
            /\ results' = [results EXCEPT ![d].mkdir = "ok"]
            /\ pc' = [pc EXCEPT ![d] = "ocr"]
            /\ log' = log \cup {<<"START", d>>}
            /\ UNCHANGED << ret, queue >>
       ELSE /\ results' = [results EXCEPT ![d].mkdir = "raise"]
            /\ pc' = [pc EXCEPT ![d] = "returned"]
            /\ ret' = [ret EXCEPT ![d] = "raised"]
            /\ queue' = QueueAfterRaise(queue)
            /\ UNCHANGED << dirs, log >>
  /\ owner' = Release(d, pc'[d])
  /\ UNCHANGED << aux, script, WORKERS, tree, run, mainpc, pdfs, started,
                  wrote, merged, successes, fails, disk >>

\* Mutant: the "return False" after a failed ocrmypdf is missing.
AfterOcrNoReturn(ok) == "extract"

\* Where the call goes when ocrmypdf has returned.
AfterOcr(ok) == IF ok THEN "extract" ELSE "returned"

\* ok, out = ocr_to_searchable(...) / run_cmd(["ocrmypdf", ...]);
\* if not ok: print("[ERROR]"); return False
Ocr(d, ok) ==
  /\ pc[d] = "ocr"
  /\ pc' = [pc EXCEPT ![d] = AfterOcr(ok)]
  /\ IF ok
       THEN /\ disk' = [disk EXCEPT ![ArtifactPath(pdfs[d], "searchable")] =
                                     Content(d, "searchable", TRUE)]
            /\ wrote' = wrote \cup {<<d, "searchable">>}
            /\ results' = [results EXCEPT ![d].norm = "ok"]
            /\ UNCHANGED << ret, log >>
       ELSE /\ results' = [results EXCEPT ![d].norm = "fail"]
            /\ ret' = [ret EXCEPT ![d] = "False"]
            /\ log' = log \cup {<<"ERROR_ocr", d>>}
            /\ UNCHANGED << disk, wrote >>
  /\ owner' = Release(d, pc'[d])
  /\ UNCHANGED << aux, script, WORKERS, tree, run, mainpc, pdfs, queue,
                  started, merged, successes, fails, dirs >>

ExtractResults == {"ok", "fail_open", "fail_mid"}

\* Mutant: the "return False" after a failed extraction is missing.
AfterExtractNoReturn(r) == IF script = "pipeline" THEN "docx" ELSE "returned"

\* Where the call goes when the text extraction has returned or raised.
AfterExtract(r) ==
  IF r = "ok" /\ script = "pipeline" THEN "docx" ELSE "returned"

\* pipeline: extract_text_from_searchable: fitz.open may raise before the
\*   .txt is opened for writing (fail_open); a page may raise after it
\*   (fail_mid, a truncated .txt stays); except: print("[ERROR]"); return False
\* ocr: run_cmd(["pdftotext", ...]); failure returns False, success prints
\*   "[OK]" and returns True.
Extract(d, r) ==
  /\ pc[d] = "extract"
  /\ r \in ExtractResults
  /\ pc' = [pc EXCEPT ![d] = AfterExtract(r)]
  /\ results' = [results EXCEPT ![d].extract = r]
  /\ IF r = "fail_open"
       THEN UNCHANGED << disk, wrote >>
       ELSE /\ disk' = [disk EXCEPT ![ArtifactPath(pdfs[d], "txt")] =
                                     Content(d, "txt", r = "ok")]
            /\ wrote' = wrote \cup {<<d, "txt">>}
  /\ ret' = [ret EXCEPT ![d] = IF r # "ok" THEN "False"
                               ELSE IF script = "ocr" THEN "True" ELSE @]
  /\ log' = log \cup (IF r # "ok" THEN {<<"ERROR_extract", d>>}
                      ELSE IF script = "ocr" THEN {<<"OK", d>>} ELSE {})
  /\ owner' = Release(d, pc'[d])
  /\ UNCHANGED << aux, script, WORKERS, tree, run, mainpc, pdfs, queue,
                  started, merged, successes, fails, dirs >>

\* Mutant: a failed export sends the call back to the extraction.
AfterDocxBackToExtract(ok) == IF ok THEN "spell" ELSE "extract"

\* Where the call goes when the docx export has returned or raised.
AfterDocx(ok) == "spell"

\* try: write_docx_from_text(txtfile, docxfile)
\* except Exception: print("[WARN] docx creation failed")
\* Document.save is the last statement of write_docx_from_text and is taken
\* to write the file whole or not at all; nothing removes an older .docx.
Docx(d, ok) ==
  /\ pc[d] = "docx"
  /\ pc' = [pc EXCEPT ![d] = AfterDocx(ok)]
  /\ results' = [results EXCEPT ![d].export = IF ok THEN "ok" ELSE "fail"]
  /\ IF ok
       THEN /\ disk' = [disk EXCEPT ![ArtifactPath(pdfs[d], "docx")] =
                                     Content(d, "docx", TRUE)]
            /\ wrote' = wrote \cup {<<d, "docx">>}
            /\ UNCHANGED log
       ELSE /\ log' = log \cup {<<"WARN_docx", d>>}
            /\ UNCHANGED << disk, wrote >>
  /\ UNCHANGED << aux, script, WORKERS, tree, run, mainpc, pdfs, queue, owner,
                  started, ret, merged, successes, fails, dirs >>

SpellResults == {"ok", "fail_read", "fail_mid"}

\* Mutant: a failed spell check fails the document.
ReturnAfterSpellHard(r) == IF r = "ok" THEN "True" ELSE "False"

\* What process_pdf_file returns once the spell check has returned or raised.
ReturnAfterSpell(r) == "True"

\* try: num_issues = simple_spellcheck(...); print("[OK]")
\* except Exception: print("[WARN] spellcheck failed")
\* return True
\* simple_spellcheck may raise before it opens the issues file (fail_read)
\* or while it writes it (fail_mid, a truncated report stays).
Spell(d, r) ==
  /\ pc[d] = "spell"
  /\ r \in SpellResults
  /\ pc' = [pc EXCEPT ![d] = "returned"]
  /\ results' = [results EXCEPT ![d].lint = r]
  /\ ret' = [ret EXCEPT ![d] = ReturnAfterSpell(r)]
  /\ IF r = "fail_read"
       THEN UNCHANGED << disk, wrote >>
       ELSE /\ disk' = [disk EXCEPT ![ArtifactPath(pdfs[d], "issues")] =
                                     Content(d, "issues", r = "ok")]
            /\ wrote' = wrote \cup {<<d, "issues">>}
  /\ log' = log \cup {<<IF r = "ok" THEN "OK" ELSE "WARN_spell", d>>}
  /\ owner' = Release(d, pc'[d])
  /\ UNCHANGED << aux, script, WORKERS, tree, run, mainpc, pdfs, queue,
                  started, merged, successes, fails, dirs >>

(* ----------------------------------------------------------------- merge *)
\* Mutant: the except clause prints the exception and counts nothing.
TallyDropsRaised(r, s, f) ==
  IF r = "True" THEN <<s + 1, f>>
  ELSE IF r = "raised" THEN <<s, f>> ELSE <<s, f + 1>>

\* Mutant: the counters are assigned, not incremented.
TallyAssigns(r, s, f) == IF r = "True" THEN <<1, f>> ELSE <<s, 1>>

\* try: ok = fut.result()  except Exception: ok = False
\* if ok: successes += 1  else: fails += 1
Tally(r, s, f) == IF r = "True" THEN <<s + 1, f>> ELSE <<s, f + 1>>

\* Mutant: fut.result() is not guarded, a raised future ends main.
MainAfterResultUnguarded(r) == IF r = "raised" THEN "crashed" ELSE "collect"

\* The main thread after it has consumed a future: the except clause keeps
\* it in the loop.
MainAfterResult(r) == "collect"

\* Mutant: every future is read through the first submitted one.
FutureResultFirst(d) == ret[1]

\* fut.result() of the future submitted for pdfs[d].
FutureResult(d) == ret[d]

\* One iteration of "for fut in as_completed(futures)".
Merge(d) ==
  /\ mainpc = "collect"
  /\ pc[d] = "returned"
  /\ merged[d] = 0
  /\ merged' = [merged EXCEPT ![d] = @ + 1]
  /\ successes' = Tally(FutureResult(d), successes, fails)[1]
  /\ fails' = Tally(FutureResult(d), successes, fails)[2]
  /\ log' = log \cup (IF FutureResult(d) = "raised"
                      THEN {<<"EXCEPTION", d>>} ELSE {})
  /\ mainpc' = MainAfterResult(FutureResult(d))
  /\ UNCHANGED << aux, script, WORKERS, tree, run, pdfs, queue, pc, owner,
                  started, ret, results, wrote, dirs, disk >>

\* as_completed is exhausted, the with block joins the pool, main prints
\* "Done." and the summary line "Success: n Failed: m".
Finish ==
  /\ mainpc = "collect"
  /\ \A d \in Docs : merged[d] >= 1
  /\ mainpc' = "done"
  /\ log' = log \cup {<<"Success:", successes>>, <<"Failed:", fails>>}
  /\ UNCHANGED << aux, script, WORKERS, tree, run, pdfs, queue, pc, owner,
                  started, ret, results, wrote, merged, successes, fails,
                  dirs, disk >>

\* The operator runs the same script again over the same tree and output
\* root: a new process, the files of the earlier run are still there.
Rerun ==
  /\ mainpc \in {"done", "returned"}
  /\ run < MaxRuns
  /\ run' = run + 1
  /\ MainStartup
  /\ UNCHANGED << aux, script, WORKERS, tree, disk >>

\* One run of the batch on an empty output root.
Next ==
  \/ Discover
  \/ \E w \in 1..(MaxDocs + MaxWorkers) : Start(w)
  \/ \E d \in Docs, ok \in BOOLEAN : Mkdir(d, ok)
  \/ \E d \in Docs, ok \in BOOLEAN : Ocr(d, ok)
  \/ \E d \in Docs, r \in ExtractResults : Extract(d, r)
  \/ \E d \in Docs, ok \in BOOLEAN : Docx(d, ok)
  \/ \E d \in Docs, r \in SpellResults : Spell(d, r)
  \/ \E d \in Docs : Merge(d)
  \/ Finish

Spec == Init /\ [][Next]_vars

\* The batch run up to MaxRuns times on the same output root.
NextRerun == Next \/ Rerun

SpecRerun == Init /\ [][NextRerun]_vars

\* A run from the start of main(), in any environment: the input folder
\* may be missing (then nothing lies under it), tools may be missing.
InitStartup ==
  /\ script \in Scripts
  /\ WORKERS \in 1..MaxWorkers
  /\ inputExists \in BOOLEAN
  /\ installed \in SUBSET Tools
  /\ tree \in {t \in SUBSET FilePool :
                 /\ Len(find_pdfs(t)) <= MaxDocs
                 /\ ~inputExists => t = {}}
  /\ run = 1
  /\ mainpc = "start"
  /\ Unscheduled
  /\ disk = [p \in AllPaths |-> Absent]
  /\ mk = <<>>
  /\ prev = NoPrev
  /\ lint = NoLint
  /\ batch = NoBatch

NextStartup == Startup \/ Next

SpecStartup == InitStartup /\ [][NextStartup]_vars

\* Files for the discovery alone: folders whose names differ where one has
\* a "." and the other ends, a file next to a folder, a file that is no PDF.
DiscoverPool ==
  { << <<"a">>, <<"b",".","p","d","f">> >>,
    << <<"a",".","b">>, <<"c",".","p","d","f">> >>,
    << <<"a",".","p","d","f">> >>,
    << <<"b",".","p","d","f">> >>,
    << <<"x">>, <<"a",".","p","d","f">> >>,
    << <<"x">>, <<"a",".","t","x","t">> >> }

\* Discovery over any tree of the pool.
InitDiscover ==
  /\ script \in Scripts
  /\ WORKERS \in 1..MaxWorkers
  /\ tree \in SUBSET DiscoverPool
  /\ run = 1
  /\ mainpc = "main"
  /\ Unscheduled
  /\ disk = [p \in AllPaths |-> Absent]
  /\ inputExists = TRUE
  /\ installed = Tools
  /\ mk = <<>>
  /\ prev = NoPrev
  /\ lint = NoLint
  /\ batch = NoBatch

NextDiscover == Discover

SpecDiscover == InitDiscover /\ [][NextDiscover]_vars

(* ------------------------------------------- a tool that never exits *)
\* The stages that wait for an external process in run_cmd: ocrmypdf in
\* both scripts, pdftotext in ocr.py (the pipeline extracts in-process).
WaitsForProcess(d) ==
  \/ pc[d] = "ocr"
  \/ pc[d] = "extract" /\ script = "ocr"

\* subprocess.run(cmd, check=False, ...) is called without timeout=: when
\* the tool never exits, the call never returns and the pool thread stays
\* in it.
Hang(d) ==
  /\ WaitsForProcess(d)
  /\ pc' = [pc EXCEPT ![d] = "blocked"]
  /\ UNCHANGED << aux, script, WORKERS, tree, run, mainpc, pdfs, queue,
                  owner, started, ret, results, wrote, merged, successes,
                  fails, dirs, disk, log >>

NextHang == Next \/ \E d \in Docs : Hang(d)

\* Every thread that can take a step eventually takes one.
SpecHang == Init /\ [][NextHang]_vars /\ WF_vars(NextHang)

(* ------------------------------------------------------ the second run *)
MaxRepeatDocs == 1   \* documents in the tree that is processed twice

\* The artifacts on disk.
Present == {p \in AllPaths : disk[p] # Absent}

\* The files of the tree that is processed twice: two PDFs side by side,
\* the report of the one named like the text of the other.
RepeatPool ==
  { << <<"a",".","p","d","f">> >>,
    << <<"a","_","i","s","s","u","e","s",".","p","d","f">> >> }

InitRepeat ==
  /\ script \in Scripts
  /\ WORKERS \in 1..MaxWorkers
  /\ tree \in {t \in SUBSET RepeatPool : Len(find_pdfs(t)) <= MaxRepeatDocs}
  /\ run = 1
  /\ mainpc = "main"
  /\ Unscheduled
  /\ disk = [p \in AllPaths |-> Absent]
  /\ inputExists = TRUE
  /\ installed = Tools
  /\ mk = <<>>
  /\ prev = NoPrev
  /\ lint = NoLint
  /\ batch = NoBatch

\* The whole batch is run a second time over the same input tree and output
\* root: a new process, with the folders and artifacts of the first run
\* still on disk.  prev keeps what the first run reported and left.
Repeat ==
  /\ mainpc \in {"done", "returned"}
  /\ run = 1
  /\ run' = run + 1
  /\ MainStartup
  /\ prev' = [pdfs |-> pdfs, results |-> results, present |-> Present,
              successes |-> successes, fails |-> fails]
  /\ UNCHANGED << inputExists, installed, mk, lint, batch, script, WORKERS,
                  tree, disk >>

NextRepeat == Next \/ Repeat

SpecRepeat == InitRepeat /\ [][NextRepeat]_vars

(* ------------------------------------------- mkdir(parents, exist_ok) *)
\* Output folders the concurrent calls may ask for, below the output root.
DirPool == { <<>>, << <<"x">> >>, << <<"x">>, <<"y">> >>, << <<"x">>, <<"z">> >> }

\* Mutant: target_dir.mkdir(parents=True) without exist_ok.
ExistOkMissing == FALSE

\* target_dir.mkdir(parents=True, exist_ok=True)
ExistOk == TRUE

\* One activation of Path.mkdir: os.mkdir is about to be tried (at = "os"),
\* it raised an OSError and is_dir is about to be asked (at = "is_dir"), or
\* the parent is being made and self.mkdir is to be called again after it
\* (at = "parent").  again: the activation was entered after this call saw
\* the folder or its parent missing.
Frame(dir, existOk, parents, again) ==
  [dir |-> dir, exist_ok |-> existOk, parents |-> parents, at |-> "os",
   again |-> again]

MkCall(dir) ==
  [target |-> dir, stack |-> << Frame(dir, ExistOk, TRUE, FALSE) >>,
   status |-> "running", lost |-> FALSE]

\* The activation below returns: the call is over, or the caller goes on
\* with self.mkdir(mode, parents=False, exist_ok=exist_ok).
Return(c) ==
  LET rest == Tail(c.stack)
  IN  IF rest = <<>>
        THEN [c EXCEPT !.stack = <<>>, !.status = "ok"]
        ELSE LET f == Head(rest)
             IN  [c EXCEPT !.stack =
                    << Frame(f.dir, f.exist_ok, FALSE, TRUE) >> \o Tail(rest)]

Raise(c) == [c EXCEPT !.stack = <<>>, !.status = "error"]

\* One system call of Path.mkdir in pool thread w:
\*   try: os.mkdir(self)
\*   except FileNotFoundError:
\*       if not parents or self.parent == self: raise
\*       self.parent.mkdir(parents=True, exist_ok=True)
\*       self.mkdir(mode, parents=False, exist_ok=exist_ok)
\*   except OSError:
\*       if not exist_ok or not self.is_dir(): raise
MkdirStep(w) ==
  /\ w \in DOMAIN mk
  /\ mk[w].status = "running"
  /\ LET c == mk[w]
         f == Head(c.stack)
     IN  IF f.at = "is_dir"
           THEN /\ mk' = [mk EXCEPT ![w] =
                           IF f.exist_ok /\ f.dir \in dirs
                             THEN Return(c) ELSE Raise(c)]
                /\ UNCHANGED dirs
         ELSE IF f.dir \in dirs
           THEN /\ mk' = [mk EXCEPT ![w] =
                           [c EXCEPT !.stack = << [f EXCEPT !.at = "is_dir"] >>
                                                \o Tail(c.stack),
                                     !.lost = @ \/ f.again]]
                /\ UNCHANGED dirs
         ELSE IF Parent(f.dir) \notin dirs
           THEN /\ mk' = [mk EXCEPT ![w] =
                           IF ~f.parents THEN Raise(c)
                           ELSE [c EXCEPT !.stack =
                                   << Frame(Parent(f.dir), TRUE, TRUE, TRUE),
                                      [f EXCEPT !.at = "parent"] >>
                                   \o Tail(c.stack)]]
                /\ UNCHANGED dirs
         ELSE /\ dirs' = dirs \cup {f.dir}
              /\ mk' = [mk EXCEPT ![w] = Return(c)]
  /\ UNCHANGED << inputExists, installed, prev, lint, batch, script, WORKERS, tree,
                  run, mainpc,
                  pdfs, queue, pc, owner, started, ret, results, wrote,
                  merged, successes, fails, disk, log >>

\* WORKERS pool threads, each inside target_dir.mkdir for its document; the
\* output root exists (main made it), a first level may exist already.
InitMkdir ==
  /\ script \in Scripts
  /\ WORKERS \in 1..MaxWorkers
  /\ tree = {}
  /\ run = 1
  /\ mainpc = "collect"
  /\ pdfs = <<>>
  /\ queue = <<>>
  /\ pc = <<>>
  /\ owner = <<>>
  /\ started = <<>>
  /\ ret = <<>>
  /\ results = <<>>
  /\ wrote = {}
  /\ merged = <<>>
  /\ successes = 0
  /\ fails = 0
  /\ log = {}
  /\ dirs \in { {<<>>}, {<<>>, << <<"x">> >>} }
  /\ disk = [p \in AllPaths |-> Absent]
  /\ inputExists = TRUE
  /\ installed = Tools
  /\ mk \in [1..WORKERS -> {MkCall(dir) : dir \in DirPool}]
  /\ prev = NoPrev
  /\ lint = NoLint
  /\ batch = NoBatch

NextMkdir == \E w \in 1..MaxWorkers : MkdirStep(w)

SpecMkdir == InitMkdir /\ [][NextMkdir]_vars

(* ---------------------------------------------------- simple_spellcheck *)
MaxTextLen == 5     \* characters of the extracted text
MaxSugg    == 6     \* how many candidates the spell checker may offer
MaxShown   == 5     \* list(sugg)[:5]

\* The characters of the text: a capital, a digit, an accented letter and a
\* blank.
Alphabet == {"H", "2", "e_acute", " "}

\* Words the custom dictionary may hold (one per line of CUSTOM_DICT_FILE).
WordPool == { <<"h", "h">>, <<"h", "2">> }

\* \d
IsDigit(c) == Ord(c) \in 48..57

\* [A-Za-z]
IsAsciiLetter(c) == Ord(c) \in (65..90) \cup (97..122)

\* [A-Za-zÀ-ÿ0-9\-\']
IsWordChar(c) ==
  IsAsciiLetter(c) \/ IsDigit(c) \/ Ord(c) \in (192..255) \cup {45, 39}

\* str.lower() of one character, as spell.unknown applies it to each word.
LowerChar(c) == IF c = "H" THEN "h" ELSE c

Lower(w) == [i \in 1..Len(w) |-> LowerChar(w[i])]

\* re.findall(r"[A-Za-zÀ-ÿ0-9\-\']{2,}", text): the maximal runs of word
\* characters that are two or more characters long.
findall(text) ==
  { SubSeq(text, i, j) : i, j \in 1..Len(text) } \cap
  { w \in UNION {[1..n -> Alphabet] : n \in 2..Len(text)} :
      \E i \in 1..Len(text) :
        LET j == i + Len(w) - 1
        IN  /\ j <= Len(text)
            /\ w = SubSeq(text, i, j)
            /\ \A k \in i..j : IsWordChar(text[k])
            /\ i = 1 \/ ~IsWordChar(text[i - 1])
            /\ j = Len(text) \/ ~IsWordChar(text[j + 1]) }

\* re.match(r'^\d+$', w)
AllDigits(w) == \A i \in 1..Len(w) : IsDigit(w[i])

\* set(w for w in words if not re.match(r'^\d+$', w))
Candidates(words) == {w \in words : ~AllDigits(w)}

\* spell.unknown(candidates): the words, lower-cased, that the dictionary
\* does not hold.
Unknown(cands, dictionary) == {Lower(w) : w \in cands} \ dictionary

\* sorted(unknown)
RECURSIVE SortWords(_)
SortWords(S) ==
  IF S = {} THEN <<>>
  ELSE LET least == CHOOSE w \in S : \A v \in S \ {w} : StrLess(w, v)
       IN  <<least>> \o SortWords(S \ {least})

\* re.search(r'\d', w) and re.search(r'[A-Za-z]', w)
ChemicalLike(w) ==
  /\ \E i \in 1..Len(w) : IsDigit(w[i])
  /\ \E i \in 1..Len(w) : IsAsciiLetter(w[i])

\* One line of the issues file: the token and either the chemical-like mark
\* or the first MaxShown of the n candidates.
ReportLine(w, n) ==
  IF ChemicalLike(w)
    THEN [word |-> w, kind |-> "chemical-like", shown |-> 0]
    ELSE [word |-> w, kind |-> "suggestions",
          shown |-> IF n < MaxShown THEN n ELSE MaxShown]

\* The lines simple_spellcheck writes after the heading.
simple_spellcheck(text, custom_words, n) ==
  LET unknown == SortWords(Unknown(Candidates(findall(text)), custom_words))
  IN  [i \in 1..Len(unknown) |-> ReportLine(unknown[i], n)]

Texts == UNION {[1..n -> Alphabet] : n \in 0..MaxTextLen}

\* One call of simple_spellcheck, on any text, custom dictionary and number
\* of candidates the checker finds for a word.
InitLint ==
  /\ script = "pipeline"
  /\ WORKERS \in 1..MaxWorkers
  /\ tree = {}
  /\ run = 1
  /\ mainpc = "collect"
  /\ Unscheduled
  /\ disk = [p \in AllPaths |-> Absent]
  /\ inputExists = TRUE
  /\ installed = Tools
  /\ mk = <<>>
  /\ prev = NoPrev
  /\ \E text \in Texts, words \in SUBSET WordPool, n \in 0..MaxSugg :
       lint = [text |-> text, custom_words |-> words, candidates |-> n,
               report |-> <<>>, at |-> "ready"]
  /\ batch = NoBatch

Spellcheck ==
  /\ lint.at = "ready"
  /\ lint' = [lint EXCEPT
               !.report = simple_spellcheck(lint.text, lint.custom_words,
                                            lint.candidates),
               !.at = "done"]
  /\ UNCHANGED << inputExists, installed, mk, prev, batch, script, WORKERS,
                  tree, run, mainpc, pdfs, queue, pc, owner, started, ret, results,
                  wrote, merged, successes, fails, dirs, disk, log >>

NextLint == Spellcheck

SpecLint == InitLint /\ [][NextLint]_vars

(* ------------------------------------------------------- batch_extract *)
\* batch_extract.py, started on any tree; the input folder may be missing.
InitBatch ==
  /\ script = "batch_extract"
  /\ WORKERS = 1
  /\ inputExists \in BOOLEAN
  /\ installed \in {Tools, Tools \ {"pdftotext"}}
  /\ tree \in {t \in SUBSET FilePool :
                 /\ Len(find_pdfs(t)) <= MaxDocs
                 /\ ~inputExists => t = {}}
  /\ run = 1
  /\ mainpc = "main"
  /\ Unscheduled
  /\ disk = [p \in AllPaths |-> Absent]
  /\ mk = <<>>
  /\ prev = NoPrev
  /\ lint = NoLint
  /\ batch = [at |-> "start", i |-> 0, attempted |-> {}, log |-> {}]

\* main() up to the loop: if not root.exists(): sys.exit(1);
\* out_base.mkdir; pdfs = sorted(root.rglob("*.pdf"));
\* if not pdfs: print("No PDFs found"); return
BatchDiscover ==
  /\ batch.at = "start"
  /\ IF ~inputExists
       THEN /\ batch' = [batch EXCEPT !.at = "exit1"]
            /\ UNCHANGED << pdfs, dirs >>
       ELSE /\ pdfs' = find_pdfs(tree)
            /\ dirs' = dirs \cup {<<>>}
            /\ batch' = IF find_pdfs(tree) = <<>>
                          THEN [batch EXCEPT !.at = "returned",
                                             !.log = {<<"No PDFs found", 0>>}]
                          ELSE [batch EXCEPT !.at = "mkdir", !.i = 1]
  /\ UNCHANGED << inputExists, installed, mk, prev, lint, script, WORKERS,
                  tree, run, mainpc, queue, pc, owner, started, ret, results,
                  wrote, merged, successes, fails, disk, log >>

\* The loop after the body for pdfs[i]: the next PDF, or print("Done.").
BatchAdvance(b) ==
  IF b.i = Len(pdfs)
    THEN [b EXCEPT !.at = "done", !.log = @ \cup {<<"Done.", 0>>}]
    ELSE [b EXCEPT !.at = "mkdir", !.i = @ + 1]

\* target_dir.mkdir(parents=True, exist_ok=True), outside any try: an
\* OSError (a file in the way, no permission) leaves main().
BatchMkdir(ok) ==
  /\ batch.at = "mkdir"
  /\ IF ok
       THEN /\ dirs' = dirs \cup Ancestors(TargetDir(pdfs[batch.i]))
            /\ batch' = [batch EXCEPT !.at = "pdftotext"]
       ELSE /\ batch' = [batch EXCEPT !.at = "crashed"]
            /\ UNCHANGED dirs
  /\ UNCHANGED << inputExists, installed, mk, prev, lint, script, WORKERS,
                  tree, run, mainpc, pdfs, queue, pc, owner, started, ret,
                  results, wrote, merged, successes, fails, disk, log >>

\* What pdftotext can do for one PDF: exit 0 with a text file, exit 0 with
\* an empty one, exit 0 with no file at txt_file, exit non-zero.
PdftotextResults == {"ok", "empty", "nofile", "fail"}

\* ok = run_pdftotext(pdf, txt_file): subprocess.run raises
\* FileNotFoundError when pdftotext is not installed (nothing catches it);
\* a non-zero exit prints "[ERROR]" and "FAILED on"; after exit 0
\* txt_file.stat() is asked, which raises when there is no file.
BatchExtract(r) ==
  /\ batch.at = "pdftotext"
  /\ r \in PdftotextResults
  /\ LET b == [batch EXCEPT !.attempted = @ \cup {batch.i}]
     IN  batch' =
           IF "pdftotext" \notin installed THEN [b EXCEPT !.at = "crashed"]
           ELSE IF r = "fail"
             THEN BatchAdvance([b EXCEPT !.log = @ \cup {<<"FAILED", b.i>>}])
           ELSE IF r = "nofile" THEN [b EXCEPT !.at = "crashed"]
           ELSE IF r = "empty"
             THEN BatchAdvance([b EXCEPT !.log = @ \cup {<<"WARNING", b.i>>}])
           ELSE BatchAdvance(b)
  /\ UNCHANGED << inputExists, installed, mk, prev, lint, script, WORKERS,
                  tree, run, mainpc, pdfs, queue, pc, owner, started, ret,
                  results, wrote, merged, successes, fails, dirs, disk, log >>

NextBatch ==
  \/ BatchDiscover
  \/ \E ok \in BOOLEAN : BatchMkdir(ok)
  \/ \E r \in PdftotextResults : BatchExtract(r)

SpecBatch == InitBatch /\ [][NextBatch]_vars

(* ---------------------------------------------------------------- claims *)
InQueue(d) == \E i \in 1..Len(queue) : queue[i] = d

RunOver == mainpc \in {"done", "returned"}

\* The documents under the input root.
Discovered == {p \in tree : MatchesPdf(Name(p))}

\* What one call returns, read off the results of its own stages alone.
OutcomeOf(r) ==
  IF r.mkdir = "raise" THEN "raised"
  ELSE IF r.norm = "fail" THEN "False"
  ELSE IF r.extract # "ok" THEN "False"
  ELSE "True"

\* The stage a failed call is attributed to.
FailedStageOf(r) ==
  IF r.mkdir = "raise" THEN "Mapper"
  ELSE IF r.norm = "fail" THEN "Normalizer"
  ELSE IF r.extract # "ok" THEN "Extractor"
  ELSE "none"

Wrote(d, k) == <<d, k>> \in wrote

\* C1: when the run is over every discovered document has been merged into
\* the counters exactly once: succeeded + failed is the number of discovered
\* documents, none dropped, none counted twice; while the run goes on the
\* counters hold exactly the merged futures.
C1_EveryDocumentMergedOnce ==
  /\ \A d \in Docs : merged[d] <= 1
  /\ mainpc \in {"collect", "done", "returned"} =>
       /\ Len(pdfs) = Cardinality(Discovered)
       /\ \A p \in Discovered : \E d \in Docs : pdfs[d] = p
       /\ successes + fails = Cardinality({d \in Docs : merged[d] = 1})
  /\ RunOver =>
       /\ \A d \in Docs : merged[d] = 1
       /\ successes + fails = Cardinality(Discovered)

C1_Witness ==
  /\ mainpc = "done"
  /\ Len(pdfs) = 2
  /\ \E d, e \in Docs : ret[d] = "raised" /\ ret[e] = "True"
  /\ successes = 1
  /\ fails = 1

\* C2: when the OCR normalizer fails for a document, the call writes no
\* .txt, .docx or _issues.txt for it (extraction, export and lint never run
\* for it), it returns False with the error attributed to ocrmypdf, and the
\* document is counted as failed.
C2_NormalizerFailureShortCircuits ==
  \A d \in Docs : results[d].norm = "fail" =>
    /\ pc[d] = "returned"
    /\ ret[d] = "False"
    /\ results[d].extract = "none"
    /\ results[d].export = "none"
    /\ results[d].lint = "none"
    /\ ~Wrote(d, "txt") /\ ~Wrote(d, "docx") /\ ~Wrote(d, "issues")
    /\ <<"ERROR_ocr", d>> \in log
    /\ FailedStageOf(results[d]) = "Normalizer"
    /\ merged[d] = 1 => fails >= 1
    /\ mainpc = "done" =>
         fails >= Cardinality({e \in Docs : results[e].norm = "fail"})

C2_Witness ==
  /\ mainpc = "done"
  /\ \E d \in Docs : results[d].norm = "fail" /\ merged[d] = 1
  /\ \E e \in Docs : ret[e] = "True"

\* C3 (as stated): when the exporter fails after normalizer and extractor
\* succeeded, the .txt file exists, the .docx file does not exist, and the
\* call succeeds with a warning about the exporter on record.
C3_ExporterFailureLeavesNoDocx ==
  \A d \in Docs : results[d].export = "fail" =>
    /\ results[d].norm = "ok"
    /\ results[d].extract = "ok"
    /\ disk[ArtifactPath(pdfs[d], "txt")] # Absent
    /\ disk[ArtifactPath(pdfs[d], "docx")] = Absent
    /\ <<"WARN_docx", d>> \in log
    /\ pc[d] = "returned" => ret[d] = "True"

\* C4: when the text extractor fails after the normalizer succeeded, the call
\* returns False without running export or lint (it writes no .docx and no
\* _issues.txt), and the _searchable file the normalizer wrote stays on disk
\* as the normalizer left it.
C4_ExtractorFailureKeepsSearchable ==
  \A d \in Docs : results[d].extract \in {"fail_open", "fail_mid"} =>
    /\ results[d].norm = "ok"
    /\ pc[d] = "returned"
    /\ ret[d] = "False"
    /\ results[d].export = "none"
    /\ results[d].lint = "none"
    /\ ~Wrote(d, "docx") /\ ~Wrote(d, "issues")
    /\ FailedStageOf(results[d]) = "Extractor"
    /\ disk[ArtifactPath(pdfs[d], "searchable")] =
         Content(d, "searchable", TRUE)

C4_Witness ==
  /\ mainpc = "done"
  /\ script = "pipeline"
  /\ \E d \in Docs :
       /\ results[d].extract = "fail_mid"
       /\ disk[ArtifactPath(pdfs[d], "searchable")] # Absent
       /\ disk[ArtifactPath(pdfs[d], "txt")] # Absent

\* C5: an exception raised inside a call (the mkdir of its output directory
\* included) becomes a failed outcome of that document only: main stays in
\* its loop, the other documents keep their place in the queue or go on
\* running, and at the end all are merged, each with the outcome its own
\* stages gave it.
C5_RaisedCallFailsOnlyItsDocument ==
  \A d \in Docs : ret[d] = "raised" =>
    /\ mainpc \in {"collect", "done"}
    /\ \A e \in Docs \ {d} : pc[e] = "queued" => InQueue(e)
    /\ merged[d] = 1 => fails >= 1
    /\ mainpc = "done" =>
         /\ \A e \in Docs : merged[e] = 1 /\ ret[e] = OutcomeOf(results[e])
         /\ successes = Cardinality({e \in Docs : ret[e] = "True"})
         /\ fails = Cardinality({e \in Docs : ret[e] # "True"})

C5_Witness ==
  /\ mainpc = "done"
  /\ \E d, e \in Docs :
       /\ d < e
       /\ results[d].mkdir = "raise"
       /\ results[e].lint = "ok"
       /\ ret[e] = "True"

\* C6: the outcome of every document and the two counters are fixed by the
\* documents' own stage results: whatever the pool size and the interleaving,
\* the same input set with the same stage results gives the same outcomes
\* and the same succeeded / failed counts.
C6_OutcomesIndependentOfPool ==
  /\ \A d \in Docs : pc[d] = "returned" => ret[d] = OutcomeOf(results[d])
  /\ mainpc = "done" =>
       /\ successes =
            Cardinality({d \in Docs : OutcomeOf(results[d]) = "True"})
       /\ fails =
            Cardinality({d \in Docs : OutcomeOf(results[d]) # "True"})

C6_Witness ==
  /\ mainpc = "done"
  /\ WORKERS = 2
  /\ Len(pdfs) = 2
  /\ merged[1] = 1 /\ merged[2] = 1
  /\ ret[1] = "False"
  /\ ret[2] = "True"

\* C7: export and lint always move forward: once extraction succeeded in the
\* pipeline script, lint runs whether export succeeded or failed, the call
\* returns True whatever export and lint did, and the document is counted as
\* succeeded.
C7_SoftStagesNeverFail ==
  LET Soft(d) == script = "pipeline" /\ results[d].extract = "ok"
  IN  /\ \A d \in Docs : Soft(d) =>
            /\ pc[d] \in {"docx", "spell", "returned"}
            /\ pc[d] = "docx"  => results[d].export = "none"
            /\ pc[d] = "spell" =>
                 results[d].export # "none" /\ results[d].lint = "none"
            /\ pc[d] = "returned" =>
                 /\ results[d].export # "none"
                 /\ results[d].lint # "none"
                 /\ ret[d] = "True"
            /\ ret[d] \in {"none", "True"}
      /\ mainpc = "done" =>
            successes >= Cardinality({d \in Docs : Soft(d)})

C7_Witness ==
  /\ mainpc = "done"
  /\ \E d \in Docs :
       /\ results[d].export = "fail"
       /\ results[d].lint = "fail_mid"
       /\ ret[d] = "True"
  /\ successes >= 1

\* C8: the number of documents whose call is in progress never exceeds the
\* configured pool size WORKERS.
C8_InProgressBoundedByWorkers ==
  Cardinality({d \in Docs : Running(d)}) <= WORKERS

C8_Witness ==
  /\ WORKERS = 1
  /\ \E d \in Docs : Running(d)
  /\ queue # <<>>

\* C9: within one run the call for each discovered document is started
\* exactly once and stays with the pool thread that started it; a document
\* whose call has returned, failed or not, is never started again.
C9_Invariant ==
  \A d \in Docs :
    /\ started[d] <= 1
    /\ started[d] = 0 <=> pc[d] = "queued"
    /\ Running(d) <=> owner[d] # 0
    /\ started[d] = 0 <=> InQueue(d)
    /\ \A e \in Docs :
         (e # d /\ Running(d) /\ Running(e)) => owner[d] # owner[e]

C9_Step ==
  run' = run => \A d \in Docs :
    /\ owner[d] # 0 => owner'[d] \in {owner[d], 0}
    /\ pc[d] = "returned" =>
         pc'[d] = "returned" /\ owner'[d] = 0 /\ started'[d] = started[d]

C9_StartedOnceInOneWorker == []C9_Invariant /\ [][C9_Step]_vars

C9_Witness ==
  /\ mainpc = "done"
  /\ Len(pdfs) = 2
  /\ WORKERS = 2
  /\ ret[1] = "False"
  /\ started[1] = 1 /\ started[2] = 1

\* C10 (as stated): the artifact paths of two different discovered documents
\* are pairwise distinct, so no two calls write the same path.
C10_ArtifactPathsNeverCollide ==
  \A d, e \in Docs : d # e =>
    \A k, l \in Kinds :
      /\ ArtifactPath(pdfs[d], k) # ArtifactPath(pdfs[e], l)
      /\ ~(Wrote(d, k) /\ Wrote(e, l)
           /\ ArtifactPath(pdfs[d], k) = ArtifactPath(pdfs[e], l))

\* The exit code of the process, 0 - 1 while it runs.
ExitCode ==
  IF mainpc \in {"done", "returned"} THEN 0
  ELSE IF mainpc = "exit1" THEN 1 ELSE 0 - 1

PreconditionFails == ~inputExists \/ ~(RequiredTools \subseteq installed)

\* C11 (as stated): the run exits non-zero exactly when a startup precondition
\* fails (input folder missing, or a required tool not on PATH), and then
\* before any document is scheduled; a run that got past startup exits 0.
C11_NonZeroExitIffPreconditionFails ==
  /\ ExitCode = 1 => PreconditionFails /\ pdfs = <<>> /\ queue = <<>>
  /\ ExitCode = 0 => ~PreconditionFails
  /\ PreconditionFails => pdfs = <<>> /\ queue = <<>>

EmptyInput == inputExists /\ Discovered = {}

\* C12 (as stated): when the input folder exists and holds no source
\* document, discovery returns the empty sequence and the run ends without
\* error, reporting zero succeeded and zero failed.
C12_EmptyInputReportsZeroCounts ==
  (EmptyInput /\ mainpc \notin {"start", "main", "exit1"}) =>
    /\ pdfs = <<>>
    /\ ExitCode = 0
    /\ <<"Success:", 0>> \in log
    /\ <<"Failed:", 0>> \in log

\* C12 (amended): when the input folder exists and holds no source document,
\* discovery returns the empty sequence and main returns at once with exit
\* code 0: it prints "No PDFs found", schedules nothing, counts nothing and
\* prints no succeeded / failed summary.
C12_EmptyInputReturnsEarly ==
  (EmptyInput /\ mainpc \notin {"start", "main", "exit1"}) =>
    /\ pdfs = <<>>
    /\ queue = <<>>
    /\ mainpc = "returned"
    /\ ExitCode = 0
    /\ successes = 0 /\ fails = 0
    /\ log = {<<"No PDFs found", 0>>}

C12_Witness ==
  /\ mainpc = "returned"
  /\ inputExists
  /\ tree # {}
  /\ pdfs = <<>>
  /\ log = {<<"No PDFs found", 0>>}

RECURSIVE PathString(_)
\* str(path): the parts joined with the separator.
PathString(p) ==
  IF Len(p) = 1 THEN p[1] ELSE p[1] \o <<"/">> \o PathString(Tail(p))

DiscoveryComplete ==
  /\ \A p \in Discovered : \E d \in Docs : pdfs[d] = p
  /\ \A d \in Docs : pdfs[d] \in Discovered
  /\ \A d, e \in Docs : d # e => pdfs[d] # pdfs[e]

\* C13 (as stated): discovery returns every matching file, sorted
\* lexicographically on the full path string, the separator compared as an
\* ordinary character.
C13_SortedByPathString ==
  mainpc # "main" =>
    /\ DiscoveryComplete
    /\ \A d, e \in Docs :
         d < e => StrLess(PathString(pdfs[d]), PathString(pdfs[e]))

\* C13 (amended): discovery returns every matching file exactly once, sorted
\* in the order of pathlib paths: component by component, each component
\* compared as a string.  That order is strict and total on the discovered
\* paths, so the sequence is fixed by the set of input paths.
C13_SortedByPathParts ==
  mainpc # "main" =>
    /\ DiscoveryComplete
    /\ \A d, e \in Docs : d < e => PathLess(pdfs[d], pdfs[e])
    /\ \A p, q \in Discovered : p # q => (PathLess(p, q) <=> ~PathLess(q, p))

C13_Witness ==
  /\ mainpc = "collect"
  /\ Len(pdfs) = 4
  /\ \E d, e \in Docs :
       /\ d < e
       /\ Len(pdfs[d]) = 2 /\ Len(pdfs[e]) = 2
       /\ StrLess(PathString(pdfs[e]), PathString(pdfs[d]))

\* C14: creating the output folder is safe under concurrency: whatever the
\* interleaving of the system calls of the pool threads, no call ends in an
\* error because another thread made the folder or an ancestor first, and
\* a call that is over has its folder on disk.
C14_ConcurrentMkdirNeverFails ==
  \A w \in DOMAIN mk :
    /\ mk[w].status # "error"
    /\ mk[w].status = "ok" => Ancestors(mk[w].target) \subseteq dirs

C14_Witness ==
  /\ DOMAIN mk = {1, 2}
  /\ mk[1].status = "ok" /\ mk[2].status = "ok"
  /\ mk[1].lost
  /\ << <<"x">>, <<"y">> >> \in dirs
  /\ << <<"x">>, <<"z">> >> \in dirs

IsLetter(c) == IsAsciiLetter(c) \/ Ord(c) \in (192..255) \ {215, 247}

ReportedWords == {lint.report[i].word : i \in 1..Len(lint.report)}

\* C16: purely numeric tokens never reach the report; the report lists the
\* unknown tokens and no known one, each once, in ascending order; every
\* listed token that holds both a digit and a letter is marked chemical-like
\* and carries no suggestions, every other listed token carries at most 5.
C16_TokenClassification ==
  lint.at = "done" =>
    /\ \A w \in ReportedWords : ~AllDigits(w) /\ w \notin lint.custom_words
    /\ ReportedWords =
         {Lower(w) : w \in {v \in findall(lint.text) : ~AllDigits(v)}}
           \ lint.custom_words
    /\ \A i, j \in 1..Len(lint.report) :
         i < j => StrLess(lint.report[i].word, lint.report[j].word)
    /\ \A i \in 1..Len(lint.report) :
         LET l == lint.report[i]
         IN  IF /\ \E k \in 1..Len(l.word) : IsDigit(l.word[k])
                /\ \E k \in 1..Len(l.word) : IsLetter(l.word[k])
               THEN l.kind = "chemical-like" /\ l.shown = 0
               ELSE l.kind = "suggestions" /\ l.shown <= 5

\* The moves of one call from stage to stage that keep the order
\* Normalizer, Extractor, Exporter, Lint.
StageOrder ==
  { <<"queued", "mkdir">>, <<"mkdir", "ocr">>, <<"mkdir", "returned">>,
    <<"ocr", "extract">>, <<"ocr", "returned">>, <<"extract", "docx">>,
    <<"extract", "returned">>, <<"docx", "spell">>, <<"spell", "returned">> }

\* A stage is entered only with the results of the stages before it, and a
\* stage that has not been reached has no result.
C17_Invariant ==
  \A d \in Docs :
    LET r == results[d]
    IN  /\ pc[d] \in {"queued", "mkdir"} => r.norm = "none"
        /\ pc[d] = "ocr" => r.mkdir = "ok" /\ r.norm = "none"
        /\ pc[d] = "extract" => r.norm = "ok" /\ r.extract = "none"
        /\ pc[d] = "docx" => r.extract = "ok" /\ r.export = "none"
        /\ pc[d] = "spell" => r.export # "none" /\ r.lint = "none"
        /\ r.extract # "none" => r.norm = "ok"
        /\ r.export # "none" => r.extract = "ok"
        /\ r.lint # "none" => r.export # "none"

\* One step moves a call along the stage order or leaves it where it is;
\* a call that has returned stays returned and its results, its return
\* value and its artifacts stay as they are.
C17_Step ==
  (mainpc # "main") =>
    \A d \in Docs :
      /\ pc'[d] # pc[d] => <<pc[d], pc'[d]>> \in StageOrder
      /\ pc[d] = "returned" =>
           /\ pc'[d] = "returned"
           /\ results'[d] = results[d]
           /\ ret'[d] = ret[d]
           /\ \A k \in Kinds : Wrote(d, k)' = Wrote(d, k)

\* C17: within one document the stages run strictly in the order
\* Normalizer, Extractor, Exporter, Lint, one at a time, each only after the
\* one before has returned, and once the call has returned (Succeeded or
\* FailedHard) no stage runs for the document any more.
C17_StagesInOrderThenAbsorbing == []C17_Invariant /\ [][C17_Step]_vars

C17_Witness ==
  /\ script = "pipeline"
  /\ mainpc = "done"
  /\ \E d, e \in Docs :
       /\ pc[d] = "returned" /\ ret[d] = "True"
       /\ results[d].norm = "ok" /\ results[d].extract = "ok"
       /\ results[d].export = "ok" /\ results[d].lint = "ok"
       /\ pc[e] = "returned" /\ ret[e] = "False" /\ results[e].norm = "ok"

\* The futures main has merged so far.
Merged == {d \in Docs : merged[d] >= 1}

C18_Invariant ==
  mainpc \in {"collect", "done"} => successes + fails = Cardinality(Merged)

\* A step that changes a counter is a step of the main thread in its merge
\* loop: no call moves in it, exactly one future is merged and exactly one
\* counter goes up by one.  A step in which a call moves changes no counter.
C18_Step ==
  /\ (successes' # successes \/ fails' # fails) =>
       /\ mainpc = "collect"
       /\ pc' = pc /\ owner' = owner /\ ret' = ret /\ queue' = queue
       /\ \E d \in Docs :
            /\ merged[d] = 0
            /\ merged' = [merged EXCEPT ![d] = 1]
       /\ \/ successes' = successes + 1 /\ fails' = fails
          \/ successes' = successes /\ fails' = fails + 1
  /\ (mainpc = "collect" /\ pc' # pc) =>
       successes' = successes /\ fails' = fails /\ merged' = merged

\* C18: the succeeded/failed counters are written only by the main thread
\* where it merges the futures, never by a pool thread; no increment is
\* lost: at each moment succeeded + failed is the number of merged results.
C18_SingleWriterMerge == []C18_Invariant /\ [][C18_Step]_vars

C18_Witness ==
  /\ mainpc = "collect"
  /\ successes = 0 /\ fails = 1
  /\ Cardinality(Merged) = 1
  /\ \E d \in Docs : merged[d] = 0 /\ Running(d)

\* C19: whatever an external tool does, also when it never exits, every
\* scheduled document eventually has a terminal outcome and the run
\* eventually finishes: no pool thread waits forever.
C19_RunEventuallyFinishes ==
  <>(RunOver /\ \A d \in Docs : pc[d] = "returned")

\* C20: in batch_extract.py a failure on one document never aborts the
\* batch: the run never ends in an uncaught error once the PDFs are
\* discovered, the PDFs are attempted in discovery order, and the run that
\* has ended has attempted every discovered PDF and printed "Done.".
C20_FailureNeverAbortsBatch ==
  /\ batch.at # "crashed"
  /\ batch.at \in {"mkdir", "pdftotext"} =>
       batch.attempted = 1..(batch.i - 1)
  /\ batch.at = "done" =>
       batch.attempted = Docs /\ <<"Done.", 0>> \in batch.log

====
